---------------------------- MODULE Spec2Model ----------------------------
(***************************************************************************)
(* A model of src/server.js (the second, current snapshot, lines 443-1221):*)
(* the ABC -> GHL reconciliation engine.  Prospects of every club and the  *)
(* swim POS transactions of club 31600 are polled, filtered, looked up in  *)
(* GHL and created or tagged there; two in-memory sets remember what was   *)
(* handled today.                                                          *)
(*                                                                         *)
(* JavaScript runs one continuation at a time, so a step of the model is   *)
(* the code between two awaits.  A GHL call is two steps: GHL handles the  *)
(* request (GhlRespond), later the awaiting function resumes (Resume...).  *)
(* An ABC call or a delay is one step: it touches no state of the model.   *)
(***************************************************************************)
EXTENDS Naturals, Sequences, FiniteSets

(***************************************************************************)
(* JavaScript values.  A string the code takes apart (an email) is a       *)
(* sequence of characters, '' and undefined both being the empty sequence  *)
(* (the code only tests such a value for truthiness before using it); any  *)
(* other string is a TLA+ string, undefined being the value below.  null   *)
(* or an object is a sequence of length 0 or 1.                            *)
(***************************************************************************)
undefined == "<undefined>"

Truthy(v) == v \notin {undefined, ""}

\* a || b
Or(a, b) == IF Truthy(a) THEN a ELSE b

\* a || b for character sequences
OrSeq(a, b) == IF a # <<>> THEN a ELSE b

UpperCase == <<"A","B","C","D","E","F","G","H","I","J","K","L","M",
               "N","O","P","Q","R","S","T","U","V","W","X","Y","Z">>

LowerCase == <<"a","b","c","d","e","f","g","h","i","j","k","l","m",
               "n","o","p","q","r","s","t","u","v","w","x","y","z">>

ToLowerChar(c) ==
  IF \E k \in 1..26 : UpperCase[k] = c
  THEN LowerCase[CHOOSE k \in 1..26 : UpperCase[k] = c]
  ELSE c

\* String.prototype.toLowerCase
ToLowerCase(s) == [k \in 1..Len(s) |-> ToLowerChar(s[k])]

\* String.prototype.includes, for a one-character needle
Includes(s, c) == \E k \in 1..Len(s) : s[k] = c

(***************************************************************************)
(* Configuration.                                                          *)
(***************************************************************************)
\* Object.keys(LOCATIONS): integer-like keys come in ascending order
ClubOrder == <<"31600", "31601">>

LOCATIONS ==
  [c \in {"31600", "31601"} |->
     IF c = "31601" THEN [ghlLocationId |-> "BQfUepBFzqVan4ruCQ6R"]
                    ELSE [ghlLocationId |-> "aqSDfuZLimMXuPz6Zx3p"]]

TARGET_CAMPAIGNS == {"Non-Member Program", "PHYSICAL THERAPY"}

\* CAMPAIGN_TAGS with the two tags exchanged
CampaignTags_Swapped(campaign) ==
  CASE campaign = "PHYSICAL THERAPY"   -> <<"Non Member Program">>
    [] campaign = "Non-Member Program" -> <<"NLPT">>
    [] OTHER                           -> <<>>

\* tag ? [tag] : [] with tag = CAMPAIGN_TAGS[campaign]
CampaignTags(campaign) ==
  CASE campaign = "PHYSICAL THERAPY"   -> <<"NLPT">>
    [] campaign = "Non-Member Program" -> <<"Non Member Program">>
    [] OTHER                           -> <<>>

SWIM_CLUB == "31600"

SWIM_PROFIT_CENTERS == {"Swim Club", "Group Swim Lessons", "Private Swim Lessons"}

SWIM_TAG == "swim purchased"

(***************************************************************************)
(* Bounds of the model.                                                    *)
(***************************************************************************)
\* runs (poll cycles and swim-only runs) started in one behaviour
MaxRuns == 2

\* midnight resets in one behaviour
MaxResets == 1

Runs == 1..MaxRuns

(***************************************************************************)
(* Records of the source (ABC).  name is the model's handle of a record    *)
(* and is read by no operator that models code.                            *)
(***************************************************************************)
NoPersonal == [email |-> <<>>, primaryPhone |-> undefined, mobilePhone |-> undefined]

NoAgreement ==
  [agreementEntrySource |-> undefined, entrySource |-> undefined,
   agreementEntrySourceReportName |-> undefined, entrySourceReportName |-> undefined,
   campaign |-> undefined, campaignName |-> undefined]

\* a prospect with every field absent; x.agreement?.f and (x.personal || {}).f
\* of an absent object are undefined, as are the fields of these two
NoProspect ==
  [name |-> "", memberId |-> undefined, id |-> undefined, email |-> <<>>,
   personal |-> NoPersonal,
   primaryPhone |-> undefined, mobilePhone |-> undefined,
   homePhone |-> undefined, cellPhone |-> undefined,
   agreementEntrySource |-> undefined, agreementEntrySourceReportName |-> undefined,
   campaign |-> undefined, campaignName |-> undefined,
   agreement |-> NoAgreement]

EmailA == <<"a","@","e","x","a","m","p","l","e",".","c","o","m">>

EmailAUpper == <<"A","@","E","x","a","m","p","l","e",".","C","O","M">>

\* a fast-add physical-therapy prospect with an email
pA == [NoProspect EXCEPT !.name = "pA", !.memberId = "m1", !.email = EmailA,
                         !.agreementEntrySource = "DataTrak Fast Add",
                         !.campaign = "PHYSICAL THERAPY"]

\* the same person, with the entry source and category spelt otherwise
pLit == [NoProspect EXCEPT !.name = "pLit", !.memberId = "m1", !.email = EmailA,
                           !.agreementEntrySource = "fast-add",
                           !.campaign = "Physical Therapy"]

\* a fast-add prospect with neither an email nor a phone, nested fields only
pN == [NoProspect EXCEPT !.name = "pN", !.id = "m2",
                         !.agreement.entrySourceReportName = "Fast Add",
                         !.agreement.campaignName = "Non-Member Program"]

\* a fast-add prospect of the other club, phone only
pB == [NoProspect EXCEPT !.name = "pB", !.memberId = "m3",
                         !.personal.mobilePhone = "555-0103",
                         !.agreementEntrySourceReportName = "Fast Add",
                         !.campaignName = "Non-Member Program"]

\* two fast-add prospects with a phone and with neither memberId nor id
pU == [NoProspect EXCEPT !.name = "pU",
                         !.personal.primaryPhone = "555-0104",
                         !.agreementEntrySource = "DataTrak Fast Add",
                         !.campaign = "Non-Member Program"]

pV == [NoProspect EXCEPT !.name = "pV",
                         !.personal.primaryPhone = "555-0105",
                         !.agreementEntrySource = "DataTrak Fast Add",
                         !.campaign = "Non-Member Program"]

\* today's prospects by club: those of 31600, those of 31601
Feed(of31600, of31601) ==
  [c \in {"31600", "31601"} |-> IF c = "31600" THEN of31600 ELSE of31601]

NoMember == [memberId |-> undefined, personal |-> NoPersonal]

\* member records of club 31600, by the id asked for; an id outside is not found
Members ==
  [m \in {"m1", "m4"} |->
     IF m = "m1"
     THEN [NoMember EXCEPT !.memberId = "m1", !.personal.email = EmailA,
                           !.personal.primaryPhone = "555-0101"]
     ELSE [NoMember EXCEPT !.memberId = "m4"]]

NoTransaction ==
  [name |-> "", transactionId |-> undefined, memberId |-> undefined,
   return |-> undefined, items |-> [kind |-> "absent", item |-> <<>>]]

Item(pc) == [profitCenter |-> pc]

\* a swim sale to member m1
t1 == [NoTransaction EXCEPT !.name = "t1", !.transactionId = "t1", !.memberId = "m1",
                            !.return = "'false'",
                            !.items = [kind |-> "array", item |-> <<Item("Swim Club")>>]]

\* a returned swim sale; return is the string 'true', items.item one object
tR == [NoTransaction EXCEPT !.name = "tR", !.transactionId = "t2", !.memberId = "m1",
                            !.return = "'true'",
                            !.items = [kind |-> "object",
                                       item |-> <<Item("Group Swim Lessons")>>]]

\* a returned sale; return is the boolean true
tR2 == [NoTransaction EXCEPT !.name = "tR2", !.transactionId = "t3", !.memberId = "m1",
                             !.return = "true",
                             !.items = [kind |-> "array",
                                        item |-> <<Item("Pro Shop"),
                                                   Item("Private Swim Lessons")>>]]

\* a sale with no swim item
tO == [NoTransaction EXCEPT !.name = "tO", !.transactionId = "t4", !.memberId = "m1",
                            !.return = "false",
                            !.items = [kind |-> "array", item |-> <<Item("Pro Shop")>>]]

\* a swim sale whose member the source does not know
tM == [NoTransaction EXCEPT !.name = "tM", !.transactionId = "t5", !.memberId = "m9",
                            !.items = [kind |-> "array",
                                       item |-> <<Item("Private Swim Lessons")>>]]

\* a swim sale to a member with neither an email nor a phone
tN == [NoTransaction EXCEPT !.name = "tN", !.transactionId = "t6", !.memberId = "m4",
                            !.return = "false",
                            !.items = [kind |-> "array", item |-> <<Item("Swim Club")>>]]

\* a swim sale to member m1 whose transaction id equals the member id of pA
tE == [NoTransaction EXCEPT !.name = "tE", !.transactionId = "m1", !.memberId = "m1",
                            !.return = "false",
                            !.items = [kind |-> "array", item |-> <<Item("Swim Club")>>]]

\* a contact GHL holds before the first run: the email of pA in other letter
\* case, no abc_member_id custom field
ExistingContact ==
  [id |-> 1, locationId |-> "aqSDfuZLimMXuPz6Zx3p", email |-> EmailAUpper,
   phone |-> "", tags |-> {}, abcId |-> undefined]

\* the days the model starts from: what ABC returns that day and the
\* contacts GHL holds at its start
Days ==
  { [prospects |-> Feed(<<pA>>, <<>>), transactions |-> <<>>, contacts |-> {}],
    [prospects |-> Feed(<<pA>>, <<>>), transactions |-> <<>>,
     contacts |-> {ExistingContact}],
    [prospects |-> Feed(<<pLit>>, <<pU, pV>>), transactions |-> <<>>, contacts |-> {}],
    [prospects |-> Feed(<<pN, pA>>, <<pB>>), transactions |-> <<>>,
     contacts |-> {ExistingContact}],
    [prospects |-> Feed(<<pA>>, <<>>), transactions |-> <<tR, tE>>, contacts |-> {}],
    [prospects |-> Feed(<<pLit>>, <<>>), transactions |-> <<tR, t1>>,
     contacts |-> {ExistingContact}],
    [prospects |-> Feed(<<>>, <<pLit>>), transactions |-> <<tR2, tO, tM, tN>>,
     contacts |-> {}] }


(***************************************************************************)
(* Pure functions of the code.                                             *)
(***************************************************************************)
\* a filter that lets a record with no entry source pass on its campaign
ProspectMatches_FailsOpen(prospect) ==
  LET entrySource == Or(prospect.agreementEntrySource,
                        Or(prospect.agreement.agreementEntrySource,
                           prospect.agreement.entrySource))
      entrySourceReport == Or(prospect.agreementEntrySourceReportName,
                              Or(prospect.agreement.agreementEntrySourceReportName,
                                 prospect.agreement.entrySourceReportName))
      isValidEntrySource == \/ entrySource = "DataTrak Fast Add"
                            \/ entrySourceReport = "Fast Add"
                            \/ ~Truthy(entrySource) /\ ~Truthy(entrySourceReport)
      campaign == Or(prospect.campaign,
                     Or(prospect.campaignName,
                        Or(prospect.agreement.campaign, prospect.agreement.campaignName)))
  IN  IF ~isValidEntrySource THEN FALSE ELSE campaign \in TARGET_CAMPAIGNS

\* a filter for which the sentinel or a target campaign in any field of the
\* chain counts
ProspectMatches_AnyFieldWins(prospect) ==
  LET isValidEntrySource ==
        \/ "DataTrak Fast Add" \in {prospect.agreementEntrySource,
                                    prospect.agreement.agreementEntrySource,
                                    prospect.agreement.entrySource}
        \/ "Fast Add" \in {prospect.agreementEntrySourceReportName,
                           prospect.agreement.agreementEntrySourceReportName,
                           prospect.agreement.entrySourceReportName}
  IN  IF ~isValidEntrySource THEN FALSE
      ELSE {prospect.campaign, prospect.campaignName, prospect.agreement.campaign,
            prospect.agreement.campaignName} \cap TARGET_CAMPAIGNS # {}

\* a filter that asks for one of its two checks only
ProspectMatches_EitherCheck(prospect) ==
  LET entrySource == Or(prospect.agreementEntrySource,
                        Or(prospect.agreement.agreementEntrySource,
                           prospect.agreement.entrySource))
      entrySourceReport == Or(prospect.agreementEntrySourceReportName,
                              Or(prospect.agreement.agreementEntrySourceReportName,
                                 prospect.agreement.entrySourceReportName))
      isValidEntrySource == entrySource = "DataTrak Fast Add"
                            \/ entrySourceReport = "Fast Add"
      campaign == Or(prospect.campaign,
                     Or(prospect.campaignName,
                        Or(prospect.agreement.campaign, prospect.agreement.campaignName)))
  IN  IF isValidEntrySource THEN TRUE ELSE campaign \in TARGET_CAMPAIGNS

\* a filter that reads the top-level fields only
ProspectMatches_TopLevelOnly(prospect) ==
  LET isValidEntrySource == prospect.agreementEntrySource = "DataTrak Fast Add"
                            \/ prospect.agreementEntrySourceReportName = "Fast Add"
      campaign == Or(prospect.campaign, prospect.campaignName)
  IN  IF ~isValidEntrySource THEN FALSE ELSE campaign \in TARGET_CAMPAIGNS

\* the callback of prospects.filter in filterProspects
ProspectMatches(prospect) ==
  LET entrySource == Or(prospect.agreementEntrySource,
                        Or(prospect.agreement.agreementEntrySource,
                           prospect.agreement.entrySource))
      entrySourceReport == Or(prospect.agreementEntrySourceReportName,
                              Or(prospect.agreement.agreementEntrySourceReportName,
                                 prospect.agreement.entrySourceReportName))
      isValidEntrySource == entrySource = "DataTrak Fast Add"
                            \/ entrySourceReport = "Fast Add"
      campaign == Or(prospect.campaign,
                     Or(prospect.campaignName,
                        Or(prospect.agreement.campaign, prospect.agreement.campaignName)))
  IN  IF ~isValidEntrySource THEN FALSE ELSE campaign \in TARGET_CAMPAIGNS

filterProspects(prospects) == SelectSeq(prospects, ProspectMatches)

\* prospect.memberId || prospect.id
ProspectMemberId(prospect) == Or(prospect.memberId, prospect.id)

\* prospect.campaign || prospect.campaignName || agreement?.campaign || ...
ProspectCampaign(prospect) ==
  Or(prospect.campaign,
     Or(prospect.campaignName,
        Or(prospect.agreement.campaign, prospect.agreement.campaignName)))

\* prospect.email || prospect.personal?.email
ProspectEmail(prospect) == OrSeq(prospect.email, prospect.personal.email)

\* the phone createGhlContact sends
ProspectPhone(prospect) ==
  Or(prospect.personal.primaryPhone,
     Or(prospect.personal.mobilePhone,
        Or(prospect.primaryPhone,
           Or(prospect.mobilePhone,
              Or(prospect.homePhone, Or(prospect.cellPhone, ""))))))

\* the guard of createGhlContact: at least an email or a phone
ProspectHasChannel(prospect) ==
  ProspectEmail(prospect) # <<>> \/ ProspectPhone(prospect) # ""

\* contactData of createGhlContact, as GHL stores it when the post succeeds
ProspectContactData(prospect, locationId, campaign) ==
  [locationId |-> locationId,
   email |-> IF ProspectEmail(prospect) # <<>> /\ Includes(ProspectEmail(prospect), "@")
             THEN ProspectEmail(prospect) ELSE <<>>,
   phone |-> ProspectPhone(prospect),
   tags |-> {CampaignTags(campaign)[k] : k \in 1..Len(CampaignTags(campaign))},
   abcId |-> Or(ProspectMemberId(prospect), "")]

\* only tx.return === true
IsReturn_BooleanOnly(tx) == tx.return = "true"

\* tx.return === 'true' || tx.return === true
IsReturn(tx) == tx.return = "'true'" \/ tx.return = "true"

\* extractItems
extractItems(transaction) ==
  CASE transaction.items.kind = "array"  -> transaction.items.item
    [] transaction.items.kind = "object" -> transaction.items.item
    [] OTHER                             -> <<>>

IsSwimItem(item) == item.profitCenter \in SWIM_PROFIT_CENTERS

\* items.some(item => SWIM_PROFIT_CENTERS.includes(item.profitCenter))
HasSwim(tx) == \E k \in 1..Len(extractItems(tx)) : IsSwimItem(extractItems(tx)[k])

\* the guard of createGhlSwimContact
MemberHasChannel(member) ==
  member.personal.email # <<>>
  \/ Or(member.personal.primaryPhone, Or(member.personal.mobilePhone, "")) # ""

\* contactData of createGhlSwimContact
MemberContactData(member, locationId) ==
  [locationId |-> locationId,
   email |-> IF member.personal.email # <<>> /\ Includes(member.personal.email, "@")
             THEN member.personal.email ELSE <<>>,
   phone |-> Or(member.personal.primaryPhone, Or(member.personal.mobilePhone, "")),
   tags |-> {SWIM_TAG},
   abcId |-> Or(member.memberId, "")]

\* contacts.find(c => c.email?.toLowerCase() === email.toLowerCase()), over the
\* contacts of the location
MatchesByEmail(contacts, locationId, email) ==
  { c \in contacts : /\ c.locationId = locationId
                     /\ c.email # <<>>
                     /\ ToLowerCase(c.email) = ToLowerCase(email) }

\* a lookup by id that finds no contact
MatchesByAbcId_Never(contacts, locationId, abcId) == {}

\* contacts.find(c => customFields.some(cf => key is abc_member_id and
\* cf.value === abcId.toString()))
MatchesByAbcId(contacts, locationId, abcId) ==
  { c \in contacts : c.locationId = locationId /\ c.abcId # undefined /\ c.abcId = abcId }

\* the ledger check left out
LedgerHas_Never(ledger, id) == FALSE

\* syncedMemberIds.has(id), syncedSwimTransactionIds.has(id)
LedgerHas(ledger, id) == id \in ledger

\* the add left out
MarkIfCreated_Never(ledger, id, created) == ledger

\* the add done whatever createGhlContact returned
MarkIfCreated_Always(ledger, id, created) == ledger \cup {id}

\* if (created) syncedMemberIds.add(memberId)
MarkIfCreated(ledger, id, created) == IF created # <<>> THEN ledger \cup {id} ELSE ledger

\* the transaction of an unknown member left unmarked
MarkMemberNotFound_Skip(ledger, txId) == ledger

\* if (!member) syncedSwimTransactionIds.add(txId)
MarkMemberNotFound(ledger, txId) == ledger \cup {txId}

\* a ledger that keeps the last transaction only
MarkSwim_Replace(ledger, txId, result) == {txId}

\* syncedSwimTransactionIds.add(txId) after the tag or create call, whatever
\* it returned
MarkSwim(ledger, txId, result) == ledger \cup {txId}

(***************************************************************************)
(* State.                                                                  *)
(***************************************************************************)
VARIABLES
  listening,                 \* app.listen's callback has run
  syncedMemberIds,           \* the prospect ledger
  syncedSwimTransactionIds,  \* the transaction ledger
  ghlContacts,               \* the contacts GHL holds
  abcProspects,              \* what ABC returns today, by club
  abcTransactions,           \* today's POS transactions of the swim club
  runs,                      \* the invocations of pollAllClubs / syncSwimSales
  started,                   \* how many runs were started
  resets,                    \* how many midnight resets have fired
  midnightTimers,            \* pending timeouts of scheduleMidnightReset
  reports,                   \* the records the last step brought to an end
  summary,                   \* the summary syncSwimSales logged in the last step
  lastPass,                  \* by club (and "swim"), how the last sync that has
                             \* ended went: "none" when its fetch failed or a
                             \* reset fired since its fetch, "failed" when a
                             \* create call of it failed, else "clean"
  failedOnce                 \* the prospects of which a create call has failed

vars == <<listening, syncedMemberIds, syncedSwimTransactionIds, ghlContacts,
          abcProspects, abcTransactions, runs, started, resets, midnightTimers,
          reports, summary, lastPass, failedOnce>>

\* a run that has not started.  respRes and the fields from calls on are the
\* model's record of what the run did; the code reads none of them
IdleRun ==
  [kind |-> "", pc |-> "idle", ci |-> 0, seg |-> "", list |-> <<>>, i |-> 0,
   respReady |-> FALSE, resp |-> <<>>, respRes |-> "", member |-> <<>>,
   existing |-> <<>>,
   swimCount |-> 0, skippedReturns |-> 0, skippedAlreadySynced |-> 0,
   created |-> 0, tagged |-> 0,
   calls |-> <<>>, ledgerHad |-> FALSE, retry |-> FALSE,
   segFetched |-> FALSE, segFailed |-> FALSE, after |-> "none"]

Init ==
  /\ listening = FALSE
  /\ syncedMemberIds = {}
  /\ syncedSwimTransactionIds = {}
  /\ \E day \in Days : /\ ghlContacts = day.contacts
                        /\ abcProspects = day.prospects
                        /\ abcTransactions = day.transactions
  /\ runs = [r \in Runs |-> IdleRun]
  /\ started = 0
  /\ resets = 0
  /\ midnightTimers = 0
  /\ reports = <<>>
  /\ summary = <<>>
  /\ lastPass = [s \in {"31600", "31601", "swim"} |-> "none"]
  /\ failedOnce = {}

InFlight(r) == runs[r].pc \notin {"idle", "done"}


(***************************************************************************)
(* The code between two awaits works on st: the run, the two ledgers and   *)
(* the records brought to an end so far in this step.                      *)
(***************************************************************************)
Current(st) == st.run.list[st.run.i]

\* await of a call or a delay: the function stops at pc
Await(st, pc) ==
  [st EXCEPT !.run.pc = pc, !.run.respReady = FALSE, !.run.resp = <<>>,
             !.run.respRes = ""]

\* the current record has reached its end in this run (the model's record of
\* it); the locals of the loop body go out of scope
EndRecord(st, outcome, marked) ==
  [st EXCEPT !.reports = Append(@, [run |-> st.r, seg |-> st.run.seg,
                                    rec |-> Current(st).name,
                                    ledgerHad |-> st.run.ledgerHad,
                                    retry |-> st.run.retry, after |-> st.run.after,
                                    outcome |-> outcome, calls |-> st.run.calls,
                                    result |-> st.run.resp, marked |-> marked]),
             !.run.calls = <<>>, !.run.ledgerHad = FALSE, !.run.retry = FALSE,
             !.run.respReady = FALSE, !.run.resp = <<>>, !.run.respRes = "",
             !.run.member = <<>>, !.run.existing = <<>>]

NextRecord(st) == [st EXCEPT !.run.i = @ + 1]

GhlLocation(run) ==
  IF run.seg = "swim" THEN LOCATIONS[SWIM_CLUB].ghlLocationId
                      ELSE LOCATIONS[run.seg].ghlLocationId

(***************************************************************************)
(* syncClub, lines 705-756.                                                *)
(***************************************************************************)
\* const created = await createGhlContact(...): without an email or a phone
\* createGhlContact returns null before it calls GHL
TryCreate(st) ==
  IF ~ProspectHasChannel(Current(st))
  THEN Await(EndRecord([st EXCEPT !.members =
                          MarkIfCreated(@, ProspectMemberId(Current(st)), <<>>)],
                       "no_channel", FALSE),
             "delay200")
  ELSE Await(st, "createGhlContact")

\* await searchGhlContactByAbcId(memberId, ...): abcId.toString() of an
\* undefined id throws inside the try, and the catch returns null
CheckByAbcId(st) ==
  IF ProspectMemberId(Current(st)) = undefined
  THEN TryCreate(st)
  ELSE Await(st, "searchGhlContactByAbcId")

\* the lookup by email left out
CheckByEmail_AbcIdFirst(st) == CheckByAbcId(st)

\* if (email) await searchGhlContactByEmail(...)
CheckByEmail(st) ==
  IF ProspectEmail(Current(st)) # <<>>
  THEN Await(st, "searchGhlContactByEmail")
  ELSE CheckByAbcId(st)

\* a sync has come to its end (the model's record of it)
EndSync(st) ==
  [st EXCEPT !.last[st.run.seg] = IF ~st.run.segFetched THEN "none"
                                   ELSE IF st.run.segFailed THEN "failed"
                                   ELSE "clean",
             !.run.segFetched = FALSE, !.run.segFailed = FALSE,
             !.run.after = "none", !.run.list = <<>>, !.run.i = 0]

\* the head of the for loop, from the record at run.i on
RECURSIVE SyncClubLoop(_)
SyncClubLoop(st) ==
  IF st.run.i > Len(st.run.list)
  THEN \* syncClub returns; pollAllClubs awaits its 2000 ms delay
       Await(EndSync(st), "delay2000")
  ELSE LET memberId == ProspectMemberId(Current(st))
           at == [st EXCEPT !.run.ledgerHad = memberId \in st.members,
                            !.run.retry = Current(st).name \in st.failed]
       IN  IF LedgerHas(st.members, memberId)
           THEN SyncClubLoop(NextRecord(EndRecord(at, "already_synced", FALSE)))
           ELSE CheckByEmail(at)

\* syncedMemberIds.add(memberId); continue
SkipDuplicate(st, outcome) ==
  SyncClubLoop(NextRecord(EndRecord(
    [st EXCEPT !.members = @ \cup {ProspectMemberId(Current(st))}], outcome, TRUE)))

(***************************************************************************)
(* syncSwimSales, lines 932-998.                                           *)
(***************************************************************************)
\* createGhlSwimContact returned (or returned null at once); created++, the
\* transaction is marked, the 300 ms delay is awaited
AfterSwimCreate(st, result, outcome) ==
  Await(EndRecord([st EXCEPT !.run.created = @ + 1,
                             !.swims = MarkSwim(@, Current(st).transactionId, result)],
                  outcome,
                  Current(st).transactionId
                    \in MarkSwim(st.swims, Current(st).transactionId, result)
                  /\ Current(st).transactionId \notin st.swims),
        "delay300")

\* addTagToGhlContact returned; tagged++, the transaction is marked
AfterSwimTag(st, result, outcome) ==
  Await(EndRecord([st EXCEPT !.run.tagged = @ + 1,
                             !.swims = MarkSwim(@, Current(st).transactionId, result)],
                  outcome,
                  Current(st).transactionId
                    \in MarkSwim(st.swims, Current(st).transactionId, result)
                  /\ Current(st).transactionId \notin st.swims),
        "delay300")

\* if (existingContact) tag it, else create it
TagOrCreate(st) ==
  IF st.run.existing # <<>>
  THEN Await(st, "addTagToGhlContact")
  ELSE IF ~MemberHasChannel(st.run.member[1])
       THEN AfterSwimCreate(st, <<>>, "no_channel")
       ELSE Await(st, "createGhlSwimContact")

\* if (!existingContact) await searchGhlContactByAbcId(memberId, ...)
SwimCheckByAbcId(st) ==
  IF st.run.existing = <<>> THEN Await(st, "swimSearchByAbcId") ELSE TagOrCreate(st)

\* if (email) await searchGhlContactByEmail(...)
SwimCheckByEmail(st) ==
  IF st.run.member[1].personal.email # <<>>
  THEN Await(st, "swimSearchByEmail")
  ELSE SwimCheckByAbcId(st)

\* the head of the for loop, from the transaction at run.i on
RECURSIVE SyncSwimLoop(_)
SyncSwimLoop(st) ==
  IF st.run.i > Len(st.run.list)
  THEN \* syncSwimSales returns, and with it pollAllClubs or the handler
       [EndSync(st) EXCEPT !.run.pc = "done",
                  !.run.swimCount = 0, !.run.skippedReturns = 0,
                  !.run.skippedAlreadySynced = 0, !.run.created = 0,
                  !.run.tagged = 0,
                  !.summary = <<[run |-> st.r, list |-> st.run.list,
                                 swimCount |-> st.run.swimCount,
                                 created |-> st.run.created,
                                 tagged |-> st.run.tagged,
                                 skippedReturns |-> st.run.skippedReturns,
                                 skippedAlreadySynced |->
                                   st.run.skippedAlreadySynced]>>]
  ELSE LET tx == Current(st)
           at == [st EXCEPT !.run.ledgerHad = tx.transactionId \in st.swims]
       IN  IF IsReturn(tx)
           THEN SyncSwimLoop(NextRecord(EndRecord(
                  [st EXCEPT !.run.skippedReturns = IF HasSwim(tx) THEN @ + 1 ELSE @],
                  "return_skipped", FALSE)))
           ELSE IF ~HasSwim(tx)
           THEN SyncSwimLoop(NextRecord(EndRecord(st, "no_swim_item", FALSE)))
           ELSE IF LedgerHas(st.swims, tx.transactionId)
           THEN SyncSwimLoop(NextRecord(EndRecord(
                  [at EXCEPT !.run.swimCount = @ + 1,
                             !.run.skippedAlreadySynced = @ + 1],
                  "already_synced", FALSE)))
           ELSE Await([at EXCEPT !.run.swimCount = @ + 1], "getAbcMember")

(***************************************************************************)
(* GHL.  A call either fails (the catch of the calling function returns    *)
(* null) or is carried out on the contacts GHL holds at that moment.       *)
(***************************************************************************)
GhlCalls == {"searchGhlContactByEmail", "searchGhlContactByAbcId", "createGhlContact",
             "swimSearchByEmail", "swimSearchByAbcId", "addTagToGhlContact",
             "createGhlSwimContact"}

Found(matches) == IF matches = {} THEN { <<>> } ELSE { <<c>> : c \in matches }

NewContact(contacts, data) ==
  [id |-> Cardinality(contacts) + 1, locationId |-> data.locationId,
   email |-> data.email, phone |-> data.phone, tags |-> data.tags,
   abcId |-> data.abcId]

\* what the call run is waiting for may come to: resp is what the calling
\* function returns, contacts what GHL holds afterwards
GhlOutcomes(run, contacts) ==
  LET rec == run.list[run.i]
      loc == GhlLocation(run)
      failed == { [resp |-> <<>>, contacts |-> contacts, res |-> "error"] }
      looked(matches) ==
        { [resp |-> f, contacts |-> contacts,
           res |-> IF f = <<>> THEN "none" ELSE "found"] : f \in Found(matches) }
      posted(data) ==
        { [resp |-> <<NewContact(contacts, data)>>,
           contacts |-> contacts \cup {NewContact(contacts, data)},
           res |-> "ok"] }
      tagged(c) ==
        { [resp |-> <<[c EXCEPT !.tags = @ \cup {SWIM_TAG}]>>,
           contacts |-> (contacts \ {c}) \cup {[c EXCEPT !.tags = @ \cup {SWIM_TAG}]},
           res |-> "ok"] }
  IN  failed \cup
      CASE run.pc = "searchGhlContactByEmail" ->
             looked(MatchesByEmail(contacts, loc, ProspectEmail(rec)))
        [] run.pc = "searchGhlContactByAbcId" ->
             looked(MatchesByAbcId(contacts, loc, ProspectMemberId(rec)))
        [] run.pc = "createGhlContact" ->
             posted(ProspectContactData(rec, loc, ProspectCampaign(rec)))
        [] run.pc = "swimSearchByEmail" ->
             looked(MatchesByEmail(contacts, loc, run.member[1].personal.email))
        [] run.pc = "swimSearchByAbcId" ->
             looked(MatchesByAbcId(contacts, loc, Or(run.member[1].memberId, "")))
        [] run.pc = "addTagToGhlContact" ->
             UNION { tagged(c) : c \in { d \in contacts : d.id = run.existing[1].id } }
        [] run.pc = "createGhlSwimContact" ->
             posted(MemberContactData(run.member[1], loc))

GhlRespond(r) ==
  /\ runs[r].pc \in GhlCalls
  /\ ~runs[r].respReady
  /\ \E o \in GhlOutcomes(runs[r], ghlContacts) :
       /\ ghlContacts' = o.contacts
       /\ runs' = [runs EXCEPT
            ![r].respReady = TRUE,
            ![r].resp = o.resp,
            ![r].respRes = o.res,
            ![r].calls = Append(@, runs[r].pc),
            ![r].segFailed =
               @ \/ (runs[r].pc \in {"createGhlContact", "createGhlSwimContact"}
                     /\ o.res = "error")]
       /\ failedOnce' = IF runs[r].pc = "createGhlContact" /\ o.res = "error"
                        THEN failedOnce \cup {runs[r].list[runs[r].i].name}
                        ELSE failedOnce
  /\ reports' = <<>>
  /\ summary' = <<>>
  /\ UNCHANGED <<listening, syncedMemberIds, syncedSwimTransactionIds, abcProspects,
                 abcTransactions, started, resets, midnightTimers, lastPass>>

(***************************************************************************)
(* Steps of a run.                                                         *)
(***************************************************************************)
State(r) == [r |-> r, run |-> runs[r], members |-> syncedMemberIds,
             swims |-> syncedSwimTransactionIds, reports |-> <<>>, summary |-> <<>>,
             last |-> lastPass, failed |-> failedOnce]

\* a step that writes both ledgers as one set
Becomes_OneLedger(r, st) ==
  /\ runs' = [runs EXCEPT ![r] = st.run]
  /\ syncedMemberIds' = st.members \cup st.swims
  /\ syncedSwimTransactionIds' = st.members \cup st.swims
  /\ reports' = st.reports
  /\ summary' = st.summary
  /\ lastPass' = st.last
  /\ UNCHANGED <<listening, ghlContacts, abcProspects, abcTransactions, started,
                 resets, midnightTimers, failedOnce>>

\* the step of run r ends in st
Becomes(r, st) ==
  /\ runs' = [runs EXCEPT ![r] = st.run]
  /\ syncedMemberIds' = st.members
  /\ syncedSwimTransactionIds' = st.swims
  /\ reports' = st.reports
  /\ summary' = st.summary
  /\ lastPass' = st.last
  /\ UNCHANGED <<listening, ghlContacts, abcProspects, abcTransactions, started,
                 resets, midnightTimers, failedOnce>>

Responded(r, pc) == runs[r].pc = pc /\ runs[r].respReady

\* getAbcProspects whose catch hands on the members of the feed
ResumeGetAbcProspects_KeepsFeedOnFailure(r) ==
  /\ runs[r].pc = "getAbcProspects"
  /\ \E ok \in BOOLEAN :
       Becomes(r, SyncClubLoop(
         [State(r) EXCEPT !.run.list = filterProspects(abcProspects[runs[r].seg]),
                          !.run.i = 1,
                          !.run.segFetched = ok,
                          !.run.after = IF ok THEN lastPass[runs[r].seg]
                                              ELSE "none"]))

\* getAbcProspects returns the members of the response, or [] from its catch
ResumeGetAbcProspects(r) ==
  /\ runs[r].pc = "getAbcProspects"
  /\ \E ok \in BOOLEAN :
       LET allProspects == IF ok THEN abcProspects[runs[r].seg] ELSE <<>>
       IN  Becomes(r, SyncClubLoop(
             [State(r) EXCEPT !.run.list = filterProspects(allProspects),
                              !.run.i = 1,
                              !.run.segFetched = ok,
                              !.run.after = IF ok THEN lastPass[runs[r].seg]
                                                  ELSE "none"]))

ResumeSearchByEmail(r) ==
  /\ Responded(r, "searchGhlContactByEmail")
  /\ Becomes(r, IF runs[r].resp # <<>>
                THEN SkipDuplicate(State(r), "duplicate_by_email")
                ELSE CheckByAbcId(State(r)))

ResumeSearchByAbcId(r) ==
  /\ Responded(r, "searchGhlContactByAbcId")
  /\ Becomes(r, IF runs[r].resp # <<>>
                THEN SkipDuplicate(State(r), "duplicate_by_abc_id")
                ELSE TryCreate(State(r)))

ResumeCreateGhlContact(r) ==
  /\ Responded(r, "createGhlContact")
  /\ LET st == State(r)
         memberId == ProspectMemberId(Current(st))
         members == MarkIfCreated(st.members, memberId, runs[r].resp)
     IN  Becomes(r, Await(EndRecord([st EXCEPT !.members = members],
                                    IF runs[r].resp # <<>> THEN "created"
                                                           ELSE "create_failed",
                                    memberId \in members /\ memberId \notin st.members),
                          "delay200"))

\* syncClub returning after the delay of its first record
ResumeDelay200_EndsSync(r) ==
  /\ runs[r].pc = "delay200"
  /\ Becomes(r, Await(EndSync(State(r)), "delay2000"))

\* await new Promise(r => setTimeout(r, 200)): the next record of the loop
ResumeDelay200(r) ==
  /\ runs[r].pc = "delay200"
  /\ Becomes(r, SyncClubLoop(NextRecord(State(r))))

\* pollAllClubs giving up the clubs left once a sync of a club went wrong
ResumeDelay2000_StopsAfterFailure(r) ==
  /\ runs[r].pc = "delay2000"
  /\ Becomes(r, IF runs[r].ci < Len(ClubOrder) /\ lastPass[runs[r].seg] = "clean"
                THEN Await([State(r) EXCEPT !.run.ci = @ + 1,
                                            !.run.seg = ClubOrder[runs[r].ci + 1]],
                           "getAbcProspects")
                ELSE Await([State(r) EXCEPT !.run.ci = 0, !.run.seg = "swim"],
                           "getPosTransactions"))

\* pollAllClubs taking the first club again after the last one
ResumeDelay2000_StartsOver(r) ==
  /\ runs[r].pc = "delay2000"
  /\ Becomes(r, Await([State(r) EXCEPT !.run.ci = (runs[r].ci % Len(ClubOrder)) + 1,
                                       !.run.seg = ClubOrder[(runs[r].ci % Len(ClubOrder)) + 1]],
                      "getAbcProspects"))

\* pollAllClubs after its delay: the next club, or syncSwimSales
ResumeDelay2000(r) ==
  /\ runs[r].pc = "delay2000"
  /\ Becomes(r, IF runs[r].ci < Len(ClubOrder)
                THEN Await([State(r) EXCEPT !.run.ci = @ + 1,
                                            !.run.seg = ClubOrder[runs[r].ci + 1]],
                           "getAbcProspects")
                ELSE Await([State(r) EXCEPT !.run.ci = 0, !.run.seg = "swim"],
                           "getPosTransactions"))

\* getPosTransactions returns the response, or {} from its catch, and
\* extractTransactions takes clubs[0].transactions of it, or []
ResumeGetPosTransactions(r) ==
  /\ runs[r].pc = "getPosTransactions"
  /\ \E ok \in BOOLEAN :
       Becomes(r, SyncSwimLoop(
         [State(r) EXCEPT !.run.list = IF ok THEN abcTransactions ELSE <<>>,
                          !.run.i = 1,
                          !.run.segFetched = ok,
                          !.run.after = IF ok THEN lastPass["swim"] ELSE "none"]))

\* getAbcMember returns members[0] || null, or null from its catch
ResumeGetAbcMember(r) ==
  /\ runs[r].pc = "getAbcMember"
  /\ \E ok \in BOOLEAN :
       LET st == State(r)
           tx == Current(st)
           member == IF ok /\ tx.memberId \in DOMAIN Members
                     THEN <<Members[tx.memberId]>> ELSE <<>>
           called == [st EXCEPT !.run.calls = Append(@, "getAbcMember")]
       IN  Becomes(r, IF member = <<>>
                      THEN SyncSwimLoop(NextRecord(EndRecord(
                             [called EXCEPT !.swims =
                                MarkMemberNotFound(@, tx.transactionId)],
                             "member_not_found",
                             tx.transactionId
                               \in MarkMemberNotFound(st.swims, tx.transactionId)
                             /\ tx.transactionId \notin st.swims)))
                      ELSE SwimCheckByEmail([called EXCEPT !.run.member = member]))

ResumeSwimSearchByEmail(r) ==
  /\ Responded(r, "swimSearchByEmail")
  /\ Becomes(r, SwimCheckByAbcId([State(r) EXCEPT !.run.existing = runs[r].resp]))

ResumeSwimSearchByAbcId(r) ==
  /\ Responded(r, "swimSearchByAbcId")
  /\ Becomes(r, TagOrCreate([State(r) EXCEPT !.run.existing = runs[r].resp]))

ResumeAddTag(r) ==
  /\ Responded(r, "addTagToGhlContact")
  /\ Becomes(r, AfterSwimTag(State(r), runs[r].resp,
                             IF runs[r].resp # <<>> THEN "tagged" ELSE "tag_failed"))

ResumeCreateSwim(r) ==
  /\ Responded(r, "createGhlSwimContact")
  /\ Becomes(r, AfterSwimCreate(State(r), runs[r].resp,
                                IF runs[r].resp # <<>> THEN "created"
                                                       ELSE "create_failed"))

ResumeDelay300(r) ==
  /\ runs[r].pc = "delay300"
  /\ Becomes(r, SyncSwimLoop(NextRecord(State(r))))

(***************************************************************************)
(* The server: app.listen's callback, the interval, the two trigger        *)
(* endpoints and the midnight timeout.                                     *)
(***************************************************************************)
\* pollAllClubs() up to its first await: syncClub of the first club awaits
\* getAbcProspects
StartPoll ==
  /\ started < MaxRuns
  /\ started' = started + 1
  /\ runs' = [runs EXCEPT ![started + 1] =
        [IdleRun EXCEPT !.kind = "poll", !.pc = "getAbcProspects", !.ci = 1,
                        !.seg = ClubOrder[1]]]
  /\ reports' = <<>>
  /\ summary' = <<>>
  /\ UNCHANGED <<lastPass, failedOnce>>

\* syncSwimSales() up to its first await
StartSwim ==
  /\ started < MaxRuns
  /\ started' = started + 1
  /\ runs' = [runs EXCEPT ![started + 1] =
        [IdleRun EXCEPT !.kind = "swim", !.pc = "getPosTransactions",
                        !.seg = "swim"]]
  /\ reports' = <<>>
  /\ summary' = <<>>
  /\ UNCHANGED <<lastPass, failedOnce>>

\* scheduleMidnightReset(); pollAllClubs(); setInterval(pollAllClubs, ...)
Listen ==
  /\ ~listening
  /\ listening' = TRUE
  /\ midnightTimers' = midnightTimers + 1
  /\ StartPoll
  /\ UNCHANGED <<syncedMemberIds, syncedSwimTransactionIds, ghlContacts, abcProspects,
                 abcTransactions, resets>>

\* the interval fires: pollAllClubs()
IntervalPoll ==
  /\ listening
  /\ StartPoll
  /\ UNCHANGED <<listening, syncedMemberIds, syncedSwimTransactionIds, ghlContacts,
                 abcProspects, abcTransactions, resets, midnightTimers>>

\* GET /trigger: await pollAllClubs()
Trigger ==
  /\ listening
  /\ StartPoll
  /\ UNCHANGED <<listening, syncedMemberIds, syncedSwimTransactionIds, ghlContacts,
                 abcProspects, abcTransactions, resets, midnightTimers>>

\* GET /trigger-swim: await syncSwimSales()
TriggerSwim ==
  /\ listening
  /\ StartSwim
  /\ UNCHANGED <<listening, syncedMemberIds, syncedSwimTransactionIds, ghlContacts,
                 abcProspects, abcTransactions, resets, midnightTimers>>

\* a timeout that clears the sets and sets no timeout after it
MidnightReset_NotReArmed ==
  /\ midnightTimers > 0
  /\ resets < MaxResets
  /\ syncedMemberIds' = {}
  /\ syncedSwimTransactionIds' = {}
  /\ midnightTimers' = midnightTimers - 1
  /\ resets' = resets + 1
  /\ reports' = <<>>
  /\ summary' = <<>>
  /\ lastPass' = [s \in DOMAIN lastPass |-> "none"]
  /\ runs' = [r \in Runs |-> [runs[r] EXCEPT !.segFetched = FALSE, !.after = "none"]]
  /\ UNCHANGED <<listening, ghlContacts, abcProspects, abcTransactions, started,
                 failedOnce>>

\* a reset that clears the prospect set only
MidnightReset_MembersOnly ==
  /\ midnightTimers > 0
  /\ resets < MaxResets
  /\ syncedMemberIds' = {}
  /\ midnightTimers' = (midnightTimers - 1) + 1
  /\ resets' = resets + 1
  /\ reports' = <<>>
  /\ summary' = <<>>
  /\ lastPass' = [s \in DOMAIN lastPass |-> "none"]
  /\ runs' = [r \in Runs |-> [runs[r] EXCEPT !.segFetched = FALSE, !.after = "none"]]
  /\ UNCHANGED <<listening, syncedSwimTransactionIds, ghlContacts, abcProspects,
                 abcTransactions, started, failedOnce>>

\* the timeout of scheduleMidnightReset fires: both sets are cleared and the
\* next timeout is set
MidnightReset ==
  /\ midnightTimers > 0
  /\ resets < MaxResets
  /\ syncedMemberIds' = {}
  /\ syncedSwimTransactionIds' = {}
  /\ midnightTimers' = (midnightTimers - 1) + 1
  /\ resets' = resets + 1
  /\ reports' = <<>>
  /\ summary' = <<>>
  /\ lastPass' = [s \in DOMAIN lastPass |-> "none"]
  /\ runs' = [r \in Runs |-> [runs[r] EXCEPT !.segFetched = FALSE, !.after = "none"]]
  /\ UNCHANGED <<listening, ghlContacts, abcProspects, abcTransactions, started,
                 failedOnce>>

Next ==
  \/ Listen
  \/ IntervalPoll
  \/ Trigger
  \/ TriggerSwim
  \/ MidnightReset
  \/ \E r \in Runs : GhlRespond(r)
  \/ \E r \in Runs : ResumeGetAbcProspects(r)
  \/ \E r \in Runs : ResumeSearchByEmail(r)
  \/ \E r \in Runs : ResumeSearchByAbcId(r)
  \/ \E r \in Runs : ResumeCreateGhlContact(r)
  \/ \E r \in Runs : ResumeDelay200(r)
  \/ \E r \in Runs : ResumeDelay2000(r)
  \/ \E r \in Runs : ResumeGetPosTransactions(r)
  \/ \E r \in Runs : ResumeGetAbcMember(r)
  \/ \E r \in Runs : ResumeSwimSearchByEmail(r)
  \/ \E r \in Runs : ResumeSwimSearchByAbcId(r)
  \/ \E r \in Runs : ResumeAddTag(r)
  \/ \E r \in Runs : ResumeCreateSwim(r)
  \/ \E r \in Runs : ResumeDelay300(r)

Spec == Init /\ [][Next]_vars

\* the step of run r that is due: the response of GHL to the call it awaits,
\* or the code that follows the await it stands at
RunStep(r) ==
  \/ GhlRespond(r)
  \/ ResumeGetAbcProspects(r)
  \/ ResumeSearchByEmail(r)
  \/ ResumeSearchByAbcId(r)
  \/ ResumeCreateGhlContact(r)
  \/ ResumeDelay200(r)
  \/ ResumeDelay2000(r)
  \/ ResumeGetPosTransactions(r)
  \/ ResumeGetAbcMember(r)
  \/ ResumeSwimSearchByEmail(r)
  \/ ResumeSwimSearchByAbcId(r)
  \/ ResumeAddTag(r)
  \/ ResumeCreateSwim(r)
  \/ ResumeDelay300(r)

\* every call to ABC and to GHL returns (axios settles each request, with a
\* timeout in the worst case), every delay ends, and the event loop runs the
\* callback of a timeout that is due
\* two of the days of Days: the prospect pA alone with GHL empty, and a
\* returned and a swim transaction with the existing contact in GHL
FairInit ==
  /\ Init
  /\ \/ abcProspects["31600"] = <<pA>> /\ abcTransactions = <<>> /\ ghlContacts = {}
     \/ abcTransactions = <<tR, t1>>

FairSpec ==
  /\ FairInit
  /\ [][Next]_vars
  /\ \A r \in Runs : WF_vars(RunStep(r))
  /\ WF_vars(MidnightReset)

(***************************************************************************)
(* filterProspects on its own: the prospect club 31600 returns has its     *)
(* entry-source, report-name and campaign fields drawn from the sets       *)
(* below, a poll cycle starts and its first syncClub filters what          *)
(* getAbcProspects returned.                                               *)
(***************************************************************************)
\* values of the three entry-source fields: absent, empty, the sentinel, another
EntrySourceValues == {undefined, "", "DataTrak Fast Add", "fast-add"}

\* values of the three report-name fields
ReportNameValues == {undefined, "", "Fast Add"}

\* values of the four campaign fields
CampaignValues == {undefined, "Non-Member Program", "Physical Therapy"}

FilterInit ==
  /\ listening = FALSE
  /\ syncedMemberIds = {}
  /\ syncedSwimTransactionIds = {}
  /\ ghlContacts = {}
  /\ \E e1 \in EntrySourceValues, e2 \in EntrySourceValues, e3 \in EntrySourceValues,
        n1 \in ReportNameValues, n2 \in ReportNameValues, n3 \in ReportNameValues,
        c1 \in CampaignValues, c2 \in CampaignValues,
        c3 \in CampaignValues, c4 \in CampaignValues :
       abcProspects =
         Feed(<<[NoProspect EXCEPT
                   !.name = "p", !.memberId = "m1",
                   !.agreementEntrySource = e1,
                   !.agreement.agreementEntrySource = e2,
                   !.agreement.entrySource = e3,
                   !.agreementEntrySourceReportName = n1,
                   !.agreement.agreementEntrySourceReportName = n2,
                   !.agreement.entrySourceReportName = n3,
                   !.campaign = c1, !.campaignName = c2,
                   !.agreement.campaign = c3, !.agreement.campaignName = c4]>>,
              <<>>)
  /\ abcTransactions = <<>>
  /\ runs = [r \in Runs |-> IdleRun]
  /\ started = 0
  /\ resets = 0
  /\ midnightTimers = 0
  /\ reports = <<>>
  /\ summary = <<>>
  /\ lastPass = [s \in {"31600", "31601", "swim"} |-> "none"]
  /\ failedOnce = {}

FilterNext ==
  \/ Listen
  \/ \E r \in Runs : ResumeGetAbcProspects(r)

FilterSpec == FilterInit /\ [][FilterNext]_vars


(***************************************************************************)
(* The claims.                                                             *)
(***************************************************************************)
Clubs == {"31600", "31601"}

Reported == { reports[k] : k \in 1..Len(reports) }

CreateCalls == {"createGhlContact", "createGhlSwimContact"}

LookupCalls == {"searchGhlContactByEmail", "searchGhlContactByAbcId",
                "swimSearchByEmail", "swimSearchByAbcId"}

Count(calls, op) == Cardinality({ k \in 1..Len(calls) : calls[k] = op })

\* run r is in the loop body of a sync, at the record list[i]
AtRecord(r) == InFlight(r) /\ runs[r].i >= 1 /\ runs[r].i <= Len(runs[r].list)

\* C1 as amended: a sync of a club that starts, from a successful fetch,
\* after the last sync of that club ended with a successful fetch and no failed
\* create call, and with no reset since that sync's fetch, issues no create
\* call; the same holds of a transaction sync, whether or not a create call
\* of the sync before it failed.
C1_NoCreateAfterCleanSync ==
  \A r \in Runs :
    /\ runs[r].seg \in Clubs /\ runs[r].after = "clean"
         => runs[r].pc # "createGhlContact"
    /\ runs[r].seg = "swim" /\ runs[r].after # "none"
         => runs[r].pc # "createGhlSwimContact"

\* C1 as stated: the second of two syncs in succession of the same location,
\* from the same records with no reset between, issues no create call.
C1_NoCreateInSecondSync ==
  \A r \in Runs : runs[r].after # "none" => runs[r].pc \notin CreateCalls

\* C1's case: the second sync passes over a prospect the first has marked
C1_SecondSyncSkips ==
  \E e \in Reported :
    e.seg \in Clubs /\ e.after = "clean" /\ e.outcome = "already_synced"

\* C2 as stated: at no time are two runs in flight.
C2_RunsAreSerialized == Cardinality({ r \in Runs : InFlight(r) }) <= 1

\* C3 as stated: for a prospect whose email is that of a contact GHL held
\* from the start, no contact carrying its id, no create call is issued, and
\* it ends as a duplicate, marked.
C3_EmailDuplicateIsNeverCreated ==
  /\ \A r \in Runs :
       ( /\ AtRecord(r)
         /\ runs[r].seg \in Clubs
         /\ \E c \in MatchesByEmail(ghlContacts, GhlLocation(runs[r]),
                                    ProspectEmail(runs[r].list[runs[r].i])) :
               c.abcId = undefined
         /\ MatchesByAbcId(ghlContacts, GhlLocation(runs[r]),
                           ProspectMemberId(runs[r].list[runs[r].i])) = {} )
       => runs[r].pc # "createGhlContact"
  /\ \A e \in Reported :
       e.seg = "31600" /\ ~e.ledgerHad
       /\ ExistingContact \in ghlContacts /\ e.rec = "pA"
       /\ MatchesByAbcId(ghlContacts, ExistingContact.locationId, "m1") = {}
       => e.outcome = "duplicate_by_email" /\ e.marked

\* C4: a prospect or qualifying transaction whose id the ledger holds when
\* the loop reaches it ends there as already synced, with no call made for
\* it, and no run waits for a call for such a record.
C4_MarkedRecordIsSkippedWithoutCalls ==
  /\ \A e \in Reported :
       e.ledgerHad => e.outcome = "already_synced" /\ e.calls = <<>>
  /\ \A r \in Runs : InFlight(r) => ~runs[r].ledgerHad

\* C4's case: in a sync after another of the same day, a marked prospect is
\* passed over
C4_LaterCycleSkips ==
  \E e \in Reported :
    e.seg \in Clubs /\ e.ledgerHad /\ e.after # "none"
    /\ e.outcome = "already_synced" /\ e.calls = <<>>

\* the contacts GHL holds apart from the one the record's create call made
Others(e) ==
  IF e.outcome = "created" THEN { c \in ghlContacts : c.id # e.result[1].id }
                           ELSE ghlContacts

\* C5 as amended: pA (entry source 'DataTrak Fast Add', campaign 'PHYSICAL
\* THERAPY', email a@example.com), not in the ledger and with no matching
\* contact in GHL, gets exactly one create call; when the call succeeds the
\* contact carries the tag NLPT, the email and the id, and the id is marked.
C5_FastAddPhysicalTherapyIsCreatedAsNLPT ==
  \A e \in Reported :
    e.seg \in Clubs /\ e.rec = "pA" /\ ~e.ledgerHad =>
      /\ ( /\ MatchesByEmail(Others(e), LOCATIONS[e.seg].ghlLocationId,
                             EmailA) = {}
           /\ MatchesByAbcId(Others(e), LOCATIONS[e.seg].ghlLocationId,
                             "m1") = {} )
         => /\ e.outcome \in {"created", "create_failed"}
            /\ Count(e.calls, "createGhlContact") = 1
      /\ e.outcome = "created"
         => /\ e.result[1].tags = {"NLPT"}
            /\ e.result[1].email = EmailA
            /\ e.result[1].abcId = "m1"
            /\ \E c \in ghlContacts :
                  c.id = e.result[1].id /\ "NLPT" \in c.tags /\ c.abcId = "m1"
            /\ "m1" \in syncedMemberIds

\* C5 as stated: once a sync of club 31600 that fetched the one prospect
\* with entry source "fast-add" and category "Physical Therapy" has ended,
\* GHL holding no contact at the start, a contact tagged NLPT exists and the
\* prospect's id is marked.
C5_LiteralScenarioA ==
  abcProspects["31600"] = <<pLit>> /\ lastPass["31600"] = "clean"
  /\ ExistingContact \notin ghlContacts
  => /\ "m1" \in syncedMemberIds
     /\ \E c \in ghlContacts : "NLPT" \in c.tags

\* C5's case: pA was created
C5_Created ==
  \E e \in Reported :
    /\ e.rec = "pA" /\ e.outcome = "created"
    /\ abcProspects["31600"] = <<pA>>
    /\ e.calls = <<"searchGhlContactByEmail", "searchGhlContactByAbcId",
                   "createGhlContact">>

\* C6 as stated: a transaction whose create or tag call failed is left
\* unmarked.
C6_FailedTransactionIsUnmarked ==
  \A e \in Reported :
    e.seg = "swim" /\ e.outcome \in {"create_failed", "tag_failed"} => ~e.marked

C8_FailedLookupAbandonsRecord ==
  [][\A r \in Runs :
       runs[r].pc \in LookupCalls /\ runs[r].respReady
       /\ runs[r].respRes = "error" /\ ~runs'[r].respReady
       => \E k \in 1..Len(reports') :
            /\ reports'[k].run = r
            /\ reports'[k].rec = runs[r].list[runs[r].i].name
            /\ ~reports'[k].marked
            /\ Count(reports'[k].calls, "createGhlContact") = 0]_vars

\* C9 as stated: for a prospect, or the member of a transaction, with
\* neither an email nor a phone no call to GHL is made, and it is not marked.
C9_NoChannelMeansNoGhlCall ==
  /\ \A r \in Runs :
       AtRecord(r) /\ runs[r].pc \in GhlCalls =>
         IF runs[r].seg = "swim" THEN MemberHasChannel(runs[r].member[1])
                                 ELSE ProspectHasChannel(runs[r].list[runs[r].i])
  /\ \A e \in Reported : e.outcome = "no_channel" => e.calls = <<>> /\ ~e.marked

\* a transaction flagged as a return
Flagged(tx) == tx.return \in {"'true'", "true"}

\* C10: no run waits for a member lookup or a GHL call for a returned
\* transaction; a returned transaction ends with no call and unmarked, its id
\* is never in the transaction ledger, and the summary's count of swim
\* transactions is that of the fetched ones that are no returns and hold a
\* swim item.
C10_ReturnsAreExcluded ==
  /\ \A r \in Runs :
       AtRecord(r) /\ runs[r].seg = "swim" /\ Flagged(runs[r].list[runs[r].i])
       => runs[r].pc \notin GhlCalls \cup {"getAbcMember", "delay300"}
  /\ \A e \in Reported :
       e.seg = "swim" /\ (\E k \in 1..Len(abcTransactions) :
                            abcTransactions[k].name = e.rec
                            /\ Flagged(abcTransactions[k]))
       => e.outcome = "return_skipped" /\ e.calls = <<>> /\ ~e.marked
  /\ \A k \in 1..Len(abcTransactions) :
       Flagged(abcTransactions[k])
       => abcTransactions[k].transactionId \notin syncedSwimTransactionIds
  /\ \A k \in 1..Len(summary) :
       summary[k].swimCount =
         Cardinality({ j \in 1..Len(summary[k].list) :
                         ~Flagged(summary[k].list[j]) /\ HasSwim(summary[k].list[j]) })

\* C10's case: a sync that fetched the returned swim sale tR has ended, and
\* counted one swim transaction
C10_ReturnSkipped ==
  \E k \in 1..Len(summary) :
    /\ \E j \in 1..Len(summary[k].list) : summary[k].list[j] = tR
    /\ summary[k].swimCount = 1
    /\ summary[k].skippedReturns = 1


\* the transaction of today's feed a report is about
TxOf(e) == CHOOSE tx \in { abcTransactions[k] : k \in 1..Len(abcTransactions) } :
             tx.name = e.rec

\* C11: a GHL call for a transaction is awaited only with its member
\* resolved, and a transaction whose member lookup returned no member (not
\* found, or the request failed) ends in that step with no GHL call made for
\* it and its id in the transaction ledger.
C11_UnresolvedMemberIsMarkedWithoutGhlCall ==
  /\ \A r \in Runs :
       AtRecord(r) /\ runs[r].seg = "swim" /\ runs[r].pc \in GhlCalls
       => /\ runs[r].member # <<>>
          /\ runs[r].list[runs[r].i].memberId \in DOMAIN Members
  /\ \A e \in Reported :
       e.seg = "swim" /\ e.outcome = "member_not_found"
       => /\ e.calls = <<"getAbcMember">>
          /\ TxOf(e).transactionId \in syncedSwimTransactionIds

\* C11's case: the member of the swim sale tM is not known to ABC; tM was
\* marked in the step its lookup returned
C11_UnknownMemberMarked ==
  \E e \in Reported :
    /\ e.rec = "tM" /\ e.outcome = "member_not_found" /\ e.marked
    /\ "m9" \notin DOMAIN Members
    /\ "t5" \in syncedSwimTransactionIds


\* C12: the step of a reset leaves both ledgers empty: every id that either
\* ledger held before it is in neither afterwards.
C12_ResetClearsBothLedgers ==
  [][resets' # resets
     => /\ syncedMemberIds' = {}
        /\ syncedSwimTransactionIds' = {}
        /\ \A id \in syncedMemberIds \cup syncedSwimTransactionIds :
             /\ ~LedgerHas(syncedMemberIds', id)
             /\ ~LedgerHas(syncedSwimTransactionIds', id)]_vars

\* C12's case: a reset has fired after a prospect and a transaction were
\* marked.  No run is in flight and no run started after the reset, the
\* contact of pA exists and carries the swim tag, so the run that made it
\* has marked both ids; both ledgers are empty, so the reset came after.
C12_ResetAfterBothMarked ==
  /\ resets = 1
  /\ started = 1
  /\ \A r \in Runs : ~InFlight(r)
  /\ \E c \in ghlContacts : c.abcId = "m1" /\ {"NLPT", SWIM_TAG} \subseteq c.tags
  /\ syncedMemberIds = {}
  /\ syncedSwimTransactionIds = {}


\* C13: a poll cycle leaves a club only for the club after it and the last
\* club only for the transaction sync, and ends only from the transaction
\* sync, whatever requests to ABC or GHL failed on the way: every failed
\* request is caught in the function that made it.
C13_CycleVisitsEveryLocation ==
  [][\A r \in Runs :
       runs[r].kind = "poll" /\ runs'[r].kind = "poll" =>
         /\ runs'[r].seg # runs[r].seg
            => \/ runs[r].seg = "31600" /\ runs'[r].seg = "31601"
               \/ runs[r].seg = "31601" /\ runs'[r].seg = "swim"
         /\ runs'[r].pc = "done" /\ runs[r].pc # "done" => runs[r].seg = "swim"]_vars

\* C13's case: the only cycle so far failed to fetch the prospects of club
\* 31600, or a create call of that sync failed, and the cycle has gone on to
\* club 31601
C13_GoesOnAfterFailure ==
  \E r \in Runs :
    /\ started = 1 /\ resets = 0
    /\ runs[r].kind = "poll" /\ runs[r].seg = "31601"
    /\ runs[r].pc = "getAbcProspects"
    /\ lastPass["31600"] \in {"none", "failed"}


\* C14 as stated, its second part: a create call for the member of a
\* transaction is awaited only while GHL holds no contact of the location
\* with the member's email or the member's id.
C14_CreateOnlyWithoutMatchingContact ==
  \A r \in Runs :
    AtRecord(r) /\ runs[r].seg = "swim" /\ runs[r].pc = "createGhlSwimContact"
    /\ ~runs[r].respReady
    => /\ MatchesByEmail(ghlContacts, GhlLocation(runs[r]),
                         runs[r].member[1].personal.email) = {}
       /\ MatchesByAbcId(ghlContacts, GhlLocation(runs[r]),
                         Or(runs[r].member[1].memberId, "")) = {}


\* every entry-source field of the record, top-level or under agreement, is
\* absent or empty
EntrySourceAbsent(p) ==
  \A v \in { p.agreementEntrySource, p.agreement.agreementEntrySource,
             p.agreement.entrySource, p.agreementEntrySourceReportName,
             p.agreement.agreementEntrySourceReportName,
             p.agreement.entrySourceReportName } : v \in {undefined, ""}

\* C15: no record whose entry-source fields are all absent or empty is among
\* the prospects syncClub works on after the filter, whatever its campaign.
C15_FilterFailsClosed ==
  \A r \in Runs :
    runs[r].seg \in Clubs =>
      \A k \in 1..Len(runs[r].list) : ~EntrySourceAbsent(runs[r].list[k])

\* C15's case: a fetch brought a record with a target campaign and no entry
\* source, and the sync ended at once, clean: the filter let nothing through
C15_RejectedDespiteCampaign ==
  \E r \in Runs :
    /\ runs[r].seg = "31600" /\ runs[r].pc = "delay2000"
    /\ lastPass["31600"] = "clean"
    /\ EntrySourceAbsent(abcProspects["31600"][1])
    /\ abcProspects["31600"][1].agreement.campaignName = "Non-Member Program"
    /\ abcProspects["31600"][1].agreement.entrySource = ""

\* the first value of the chain that is neither absent nor empty
FirstFound(chain) ==
  IF \E k \in 1..Len(chain) : chain[k] \notin {undefined, ""}
  THEN chain[CHOOSE k \in 1..Len(chain) :
               /\ chain[k] \notin {undefined, ""}
               /\ \A j \in 1..(k - 1) : chain[j] \in {undefined, ""}]
  ELSE undefined

\* the entry source of the record is the sentinel and its category is one of
\* the target categories, each taken as the first value found along its chain
Qualifies(p) ==
  /\ FirstFound(<<p.agreementEntrySource, p.agreement.agreementEntrySource,
                  p.agreement.entrySource>>) = "DataTrak Fast Add"
  /\ FirstFound(<<p.campaign, p.campaignName, p.agreement.campaign,
                  p.agreement.campaignName>>)
       \in {"Non-Member Program", "PHYSICAL THERAPY"}

\* C16: in the step in which syncClub gets the prospects of a club, every
\* fetched record whose entry source is the sentinel and whose category is in
\* the target list passes the filter: syncClub goes on to work on it (it is
\* in the list, or has come to its end in this step), and the sync does not
\* end there as one that fetched and found nothing to do.
C16_FilterAcceptsSentinelWithTargetCampaign ==
  [][\A r \in Runs :
       /\ runs[r].pc = "getAbcProspects" /\ runs'[r].pc # "getAbcProspects"
       /\ runs'[r].segFetched \/ lastPass'[runs[r].seg] # "none"
       => \A k \in 1..Len(abcProspects[runs[r].seg]) :
            Qualifies(abcProspects[runs[r].seg][k])
            => \/ \E j \in 1..Len(runs'[r].list) :
                    runs'[r].list[j] = abcProspects[runs[r].seg][k]
               \/ \E j \in 1..Len(reports') :
                    reports'[j].rec = abcProspects[runs[r].seg][k].name]_vars

\* C16's case: a record with the sentinel and the campaign in nested fields
\* only has passed the filter
C16_NestedSentinelAccepted ==
  \E r \in Runs :
    /\ runs[r].seg = "31600" /\ runs[r].pc = "searchGhlContactByAbcId"
    /\ runs[r].list = abcProspects["31600"]
    /\ runs[r].list[1].agreementEntrySource = ""
    /\ runs[r].list[1].agreement.entrySource = "DataTrak Fast Add"
    /\ runs[r].list[1].agreement.campaignName = "Non-Member Program"
    /\ runs[r].list[1].campaign = undefined
    /\ EntrySourceAbsent([runs[r].list[1] EXCEPT !.agreement.entrySource = undefined])


\* C17 as stated, but for the marking of a transaction whose member was not
\* resolved, which C11 asks for: a step marks the id of a record only when
\* the record ended as a duplicate found in GHL (for a transaction: found and
\* tagged) or as created.
C17_MarkedOnlyAfterDefinitiveOutcome ==
  \A e \in Reported :
    e.marked => e.outcome \in {"duplicate_by_email", "duplicate_by_abc_id",
                               "created", "tagged", "member_not_found"}


\* C18: a step that is not a reset removes no id from either ledger: what
\* LedgerHas reported as seen before the step it reports as seen after it.
C18_MarksLastUntilReset ==
  [][resets' = resets
     => /\ \A id \in syncedMemberIds : LedgerHas(syncedMemberIds', id)
        /\ \A id \in syncedSwimTransactionIds :
             LedgerHas(syncedSwimTransactionIds', id)]_vars

\* C18's case: with no reset so far, a later sync finds a transaction still
\* marked while the prospect ledger holds an id too
C18_StillSeenLater ==
  /\ resets = 0
  /\ syncedMemberIds # {}
  /\ \E e \in Reported :
       /\ e.seg = "swim" /\ e.ledgerHad /\ e.outcome = "already_synced"
       /\ TxOf(e).transactionId \in syncedSwimTransactionIds


\* the prospect of today's feed a report is about
ProspectOf(e) ==
  CHOOSE p \in UNION { { abcProspects[c][k] : k \in 1..Len(abcProspects[c]) } :
                       c \in Clubs } : p.name = e.rec

\* C19: a step that changes the prospect ledger is a step of a prospect sync
\* and leaves the transaction ledger as it was, and a step that changes the
\* transaction ledger is a step of the transaction sync and leaves the
\* prospect ledger as it was (a reset apart); a record is passed over as
\* already synced only if the ledger of its own kind holds its id.
C19_LedgersAreIndependent ==
  [][/\ syncedMemberIds' # syncedMemberIds /\ resets' = resets
        => /\ syncedSwimTransactionIds' = syncedSwimTransactionIds
           /\ \E r \in Runs : runs[r].seg \in Clubs /\ runs'[r] # runs[r]
     /\ syncedSwimTransactionIds' # syncedSwimTransactionIds /\ resets' = resets
        => /\ syncedMemberIds' = syncedMemberIds
           /\ \E r \in Runs : runs[r].seg = "swim" /\ runs'[r] # runs[r]
     /\ \A j \in 1..Len(reports') :
          reports'[j].outcome = "already_synced"
          => IF reports'[j].seg = "swim"
             THEN TxOf(reports'[j]).transactionId \in syncedSwimTransactionIds'
             ELSE ProspectMemberId(ProspectOf(reports'[j])) \in syncedMemberIds']_vars

\* C19's case: the prospect ledger holds m1, the transaction ledger does not,
\* and the transaction sync has taken the sale tE, whose id is m1 too, as
\* unseen: it waits for the member lookup of tE
C19_EqualIdOfOtherKindUnseen ==
  \E r \in Runs :
    /\ "m1" \in syncedMemberIds /\ "m1" \notin syncedSwimTransactionIds
    /\ runs[r].seg = "swim" /\ AtRecord(r) /\ runs[r].pc = "getAbcMember"
    /\ runs[r].list[runs[r].i] = tE
    /\ ~runs[r].ledgerHad


\* C20: for a prospect with an email, a run comes to wait for the lookup by
\* ABC id only from the lookup by email, and only when that lookup returned
\* no contact; it comes to wait for the create call only from the lookup by
\* ABC id, and only when that one returned no contact either; and a prospect
\* found by email ends with the lookup by email as its only call.
C20_EmailThenAbcIdThenCreate ==
  [][\A r \in Runs :
       /\ runs'[r].seg \in Clubs /\ runs'[r].i >= 1 /\ runs'[r].i <= Len(runs'[r].list)
       /\ ProspectEmail(runs'[r].list[runs'[r].i]) # <<>>
       => /\ runs'[r].pc = "searchGhlContactByAbcId"
             /\ runs[r].pc # "searchGhlContactByAbcId"
             => /\ runs[r].pc = "searchGhlContactByEmail"
                /\ runs[r].respReady /\ runs[r].resp = <<>>
                /\ runs'[r].calls = <<"searchGhlContactByEmail">>
          /\ runs'[r].pc = "createGhlContact" /\ runs[r].pc # "createGhlContact"
             => /\ runs[r].pc = "searchGhlContactByAbcId"
                /\ runs[r].respReady /\ runs[r].resp = <<>>
                /\ runs'[r].calls = <<"searchGhlContactByEmail",
                                      "searchGhlContactByAbcId">>
          /\ \A j \in 1..Len(reports') :
               reports'[j].run = r /\ reports'[j].outcome = "duplicate_by_email"
               => reports'[j].calls = <<"searchGhlContactByEmail">>]_vars

\* C20's case: both lookups for pA have returned no contact and the run
\* waits for the create call
C20_CreateAfterBothLookups ==
  \E r \in Runs :
    /\ runs[r].seg = "31600" /\ AtRecord(r) /\ runs[r].list[runs[r].i] = pA
    /\ runs[r].pc = "createGhlContact" /\ ~runs[r].respReady
    /\ runs[r].calls = <<"searchGhlContactByEmail", "searchGhlContactByAbcId">>
    /\ ghlContacts = {}


\* the names of the records a step of run r brought to their end, in order
EndedBy(r, recs) ==
  LET mine(e) == e.run = r
      own == SelectSeq(recs, mine)
  IN  [k \in 1..Len(own) |-> own[k].rec]

\* the names of the records of run r's list from the index i on
NamesFrom(run, i) == [k \in 1..(Len(run.list) + 1 - i) |-> run.list[k + i - 1].name]

\* C21: within a poll cycle the fetch of a club's prospects starts only from
\* the delay after the sync of the club before it, in the order of LOCATIONS,
\* and the transaction sync only from the delay after the last club; a sync
\* of a club gets to that delay only in a step in which every record left of
\* its list has come to its end, one after another in the order of the list.
C21_LocationsInOrderOneRecordAtATime ==
  [][\A r \in Runs :
       runs[r].kind = "poll" /\ runs'[r].kind = "poll" =>
         /\ runs'[r].pc = "getAbcProspects" /\ runs[r].pc # "getAbcProspects"
            => /\ runs[r].pc = "delay2000"
               /\ runs[r].list = <<>>
               /\ runs'[r].ci = runs[r].ci + 1
               /\ runs'[r].seg = ClubOrder[runs'[r].ci]
         /\ runs'[r].pc = "getPosTransactions" /\ runs[r].pc # "getPosTransactions"
            => /\ runs[r].pc = "delay2000"
               /\ runs[r].list = <<>>
               /\ runs[r].seg = ClubOrder[Len(ClubOrder)]
         /\ runs'[r].pc = "delay2000" /\ runs[r].pc # "delay2000"
            => /\ runs[r].seg \in Clubs
               /\ runs'[r].seg = runs[r].seg
               /\ IF runs[r].pc = "getAbcProspects"
                  THEN EndedBy(r, reports')
                         \in {<<>>, NamesFrom([list |->
                                filterProspects(abcProspects[runs[r].seg])], 1)}
                  ELSE EndedBy(r, reports')
                         = NamesFrom(runs[r], IF runs[r].pc = "delay200"
                                              THEN runs[r].i + 1 ELSE runs[r].i)]_vars

\* C21's case: the only cycle so far has brought both records of club 31600
\* to their end, pA as the last one, and waits before it goes on to club 31601
C21_BothRecordsEndedBeforeNextClub ==
  \E r \in Runs :
    /\ started = 1
    /\ runs[r].kind = "poll" /\ runs[r].pc = "delay2000" /\ runs[r].seg = "31600"
    /\ Len(filterProspects(abcProspects["31600"])) = 2
    /\ \E e \in Reported : e.run = r /\ e.rec = "pA"


\* C22: under FairSpec, where every call returns and every delay ends, every
\* run that has started comes to its end.
C22_EveryRunCompletes ==
  \A r \in Runs : InFlight(r) ~> (runs[r].pc = "done")

\* C22's case: two runs were started, one of them a poll cycle that went
\* through both clubs and the transactions tR and t1, and both are done
C22_BothRunsDone ==
  /\ started = MaxRuns
  /\ \A r \in Runs : runs[r].pc = "done"
  /\ \E r \in Runs : runs[r].kind = "poll"
  /\ abcTransactions = <<tR, t1>>


\* C23: the step of a run that follows a failed fetch from ABC (of a club's
\* prospects or of the transactions) ends the sync with no record taken up: no
\* record has come to an end, no call to GHL is awaited or was made, the two
\* ledgers and the contacts of GHL are as before, and the run stands at the
\* delay before the next club (the transaction sync is done).
C23_FailedFetchIsAnEmptyList ==
  [][\A r \in Runs :
       ( /\ runs[r].pc \in {"getAbcProspects", "getPosTransactions"}
         /\ runs'[r].pc # runs[r].pc
         /\ ~runs'[r].segFetched
         /\ lastPass'[runs[r].seg] = "none" )
       => /\ reports' = <<>>
          /\ runs'[r].calls = <<>>
          /\ runs'[r].list = <<>>
          /\ syncedMemberIds' = syncedMemberIds
          /\ syncedSwimTransactionIds' = syncedSwimTransactionIds
          /\ ghlContacts' = ghlContacts
          /\ runs'[r].pc = IF runs[r].seg \in Clubs THEN "delay2000" ELSE "done"
          /\ runs'[r].kind = runs[r].kind]_vars

\* C23's case: the fetch of club 31600, whose feed holds pA, failed in the only
\* cycle so far; nothing is marked or created and the cycle waits before it
\* goes on to club 31601
C23_FetchFailedCycleGoesOn ==
  \E r \in Runs :
    /\ started = 1 /\ resets = 0
    /\ runs[r].pc = "delay2000" /\ runs[r].seg = "31600"
    /\ lastPass["31600"] = "none"
    /\ abcProspects["31600"] = <<pA>>
    /\ syncedMemberIds = {} /\ ghlContacts = {}


\* the number of records the step of run r ended with the given outcome
Ended(r, recs, outcome) ==
  Cardinality({ k \in 1..Len(recs) : recs[k].run = r /\ recs[k].outcome = outcome })

\* C24 as stated: in every step of a transaction sync the count of created
\* contacts grows by the number of create calls that succeeded in the step,
\* and the count of tagged contacts by the number of tag calls that succeeded.
C24_CountsAreSuccessfulCalls ==
  [][\A r \in Runs :
       runs[r].seg = "swim" /\ runs'[r].seg = "swim" /\ runs[r].pc # "done"
       => /\ runs'[r].created = runs[r].created + Ended(r, reports', "created")
          /\ runs'[r].tagged = runs[r].tagged + Ended(r, reports', "tagged")]_vars


\* the three logical fields of a record, each the first value of its chain
\* that is neither absent nor empty: top-level fields first, those of the
\* agreement after
ResolvedEntrySource(p) ==
  FirstFound(<<p.agreementEntrySource, p.agreement.agreementEntrySource,
               p.agreement.entrySource>>)

ResolvedReportName(p) ==
  FirstFound(<<p.agreementEntrySourceReportName,
               p.agreement.agreementEntrySourceReportName,
               p.agreement.entrySourceReportName>>)

ResolvedCategory(p) ==
  FirstFound(<<p.campaign, p.campaignName, p.agreement.campaign,
               p.agreement.campaignName>>)

\* the sync of club 31600 fetched its feed and ended with nothing to work on
NothingPassed(r) ==
  /\ runs[r].seg = "31600" /\ runs[r].pc = "delay2000"
  /\ lastPass["31600"] = "clean"
  /\ syncedMemberIds = {}

\* C25: the filter decides on the first non-empty value of each chain alone.
\* A record syncClub works on has a resolved entry source or report name that
\* is the sentinel and a resolved category of the target list; and where the
\* sync fetched the record and found nothing to work on, the resolved values
\* do not qualify, whatever the fields further down the chains hold.
C25_FirstNonEmptyValueDecides ==
  \A r \in Runs :
    /\ runs[r].seg \in Clubs =>
         \A k \in 1..Len(runs[r].list) :
           /\ \/ ResolvedEntrySource(runs[r].list[k]) = "DataTrak Fast Add"
              \/ ResolvedReportName(runs[r].list[k]) = "Fast Add"
           /\ ResolvedCategory(runs[r].list[k]) \in TARGET_CAMPAIGNS
    /\ NothingPassed(r) =>
         \A k \in 1..Len(abcProspects["31600"]) :
           ~ ( /\ \/ ResolvedEntrySource(abcProspects["31600"][k]) = "DataTrak Fast Add"
                  \/ ResolvedReportName(abcProspects["31600"][k]) = "Fast Add"
               /\ ResolvedCategory(abcProspects["31600"][k]) \in TARGET_CAMPAIGNS )

\* C25's case: the top-level entry source is 'fast-add', the sentinel stands
\* in the agreement only, the campaign is a target one, and the record was
\* rejected
C25_LowerSentinelIsMasked ==
  \E r \in Runs :
    /\ NothingPassed(r)
    /\ abcProspects["31600"][1].agreementEntrySource = "fast-add"
    /\ abcProspects["31600"][1].agreement.entrySource = "DataTrak Fast Add"
    /\ ResolvedReportName(abcProspects["31600"][1]) = undefined
    /\ abcProspects["31600"][1].campaign = "Non-Member Program"

\* the two checks of the filter on the resolved values
EntryCheck(p) ==
  ResolvedEntrySource(p) = "DataTrak Fast Add" \/ ResolvedReportName(p) = "Fast Add"

CategoryCheck(p) == ResolvedCategory(p) \in {"Non-Member Program", "PHYSICAL THERAPY"}

\* syncClub goes on to work on the record: after the step it is in the run's
\* list or has come to its end in the step
Accepted(r, p, list, recs) ==
  \/ \E j \in 1..Len(list) : list[j] = p
  \/ \E j \in 1..Len(recs) : recs[j].run = r /\ recs[j].rec = p.name

\* C26: in the step in which syncClub gets the prospects of a club, a fetched
\* record passes the filter if and only if it passes the entry check and the
\* category check; a record that passes one of the two only is rejected.
C26_AcceptsIffBothChecksPass ==
  [][\A r \in Runs :
       ( /\ runs[r].pc = "getAbcProspects" /\ runs'[r].pc # "getAbcProspects"
         /\ runs'[r].segFetched \/ lastPass'[runs[r].seg] # "none" )
       => \A k \in 1..Len(abcProspects[runs[r].seg]) :
            LET p == abcProspects[runs[r].seg][k]
                accepted == Accepted(r, p, runs'[r].list, reports')
            IN  /\ accepted <=> (EntryCheck(p) /\ CategoryCheck(p))
                /\ EntryCheck(p) /\ ~CategoryCheck(p) => ~accepted
                /\ CategoryCheck(p) /\ ~EntryCheck(p) => ~accepted]_vars

\* C26's case: the record carries the sentinel and a campaign that is not in
\* the target list ('Physical Therapy'), and was rejected
C26_SentinelAloneRejected ==
  \E r \in Runs :
    /\ NothingPassed(r)
    /\ abcProspects["31600"][1].agreementEntrySource = "DataTrak Fast Add"
    /\ abcProspects["31600"][1].campaign = "Physical Therapy"
    /\ abcProspects["31600"][1].agreement.campaignName = "Non-Member Program"


\* C27: from the call of scheduleMidnightReset in the callback of app.listen
\* on, exactly one timeout of the reset is pending in every state; the step in
\* which it fires clears both ledgers and leaves one timeout pending; and
\* under FairSpec, while the model's bound on the resets is not reached, the
\* reset does fire and an id that is marked is unmarked again.
C27_ResetIsReArmed ==
  /\ [](listening => midnightTimers = 1)
  /\ [][resets' # resets =>
          /\ resets' = resets + 1
          /\ midnightTimers' = 1
          /\ syncedMemberIds' = {} /\ syncedSwimTransactionIds' = {}]_vars
  /\ \A n \in 0..(MaxResets - 1) : (listening /\ resets = n) ~> (resets = n + 1)
  /\ ("m1" \in syncedMemberIds /\ resets < MaxResets) ~> ("m1" \notin syncedMemberIds)

\* C27's case: a reset has fired after pA was created and marked; the id is
\* unmarked again, no run is on its way and the next timeout is pending
C27_UnmarkedAgainAndPending ==
  /\ resets = 1 /\ midnightTimers = 1
  /\ "m1" \notin syncedMemberIds
  /\ \E c \in ghlContacts : c.abcId = "m1" /\ "NLPT" \in c.tags
  /\ \A r \in Runs : ~InFlight(r)


\* the contacts a create call of a prospect sync made for the prospect with
\* the id, and those a create call of a transaction sync made for its member
CreatedForProspect(id) ==
  { c \in ghlContacts : c.abcId = id /\ c.tags \ {SWIM_TAG} # {} }

CreatedForMember(id) == { c \in ghlContacts : c.abcId = id /\ c.tags = {SWIM_TAG} }

\* C28 as stated: with no reset, GHL holds at most one contact created for the
\* prospect m1 and at most one created for the one swim transaction of the
\* member m1 that is no return, however the runs interleave.
C28_AtMostOneCreatePerId ==
  resets = 0 =>
    /\ Cardinality(CreatedForProspect("m1")) <= 1
    /\ Cardinality(CreatedForMember("m1")) <= 1


\* the contacts of the run's location that a create call made for the prospect
CreatedEarlier(run, p) ==
  { c \in CreatedForProspect(Or(ProspectMemberId(p), "")) :
      c.locationId = GhlLocation(run) }

C30_SkippedOnlyIfItselfMarked ==
  \A e \in Reported :
    e.seg \in Clubs /\ e.outcome = "already_synced" => started > 1

=============================================================================
